---- MODULE Spec2Model ----
(***************************************************************************)
(* Clinical-trials microservice: the ClinicalTrials.gov client (rate       *)
(* throttle, SearchTrials, GetTrialDetails, conversion and post-filter),   *)
(* the TTL cache and the HTTP handlers that sit in front of them.          *)
(*                                                                         *)
(* Go strings are sequences of one-character strings, so that trimming,    *)
(* lower-casing, digit scanning and key concatenation are computed the way *)
(* the code computes them.  Error messages are never taken apart by the    *)
(* code, so they are plain TLA+ strings.                                   *)
(***************************************************************************)
EXTENDS Integers, Sequences, FiniteSets, TLC

(***************************************************************************)
(* Bounds of the model.                                                    *)
(***************************************************************************)
\* calls started in one behaviour, over all callers
MaxCalls == 2
\* callers (goroutines serving HTTP requests) that may be in flight at once
NumCallers == 2
\* the clock stops after this many ticks past the start instant
MaxTicks == 3

(***************************************************************************)
(* Program constants, in clock ticks of one second.                        *)
(***************************************************************************)
\* DefaultRateLimitDelay = 2 s
DefaultRateLimitDelay == 2
\* the cache TTL the server is started with (flag cache-ttl), scaled down
CacheTTL == 2

(***************************************************************************)
(* Strings.                                                                 *)
(***************************************************************************)
Lower == <<"a","b","c","d","e","f","g","h","i","j","k","l","m",
           "n","o","p","q","r","s","t","u","v","w","x","y","z">>
Upper == <<"A","B","C","D","E","F","G","H","I","J","K","L","M",
           "N","O","P","Q","R","S","T","U","V","W","X","Y","Z">>
Digits == <<"0","1","2","3","4","5","6","7","8","9">>

\* unicode.ToLower on one character
ToLowerChar(c) ==
    IF \E i \in 1..26 : Upper[i] = c
    THEN Lower[CHOOSE i \in 1..26 : Upper[i] = c]
    ELSE c

\* strings.ToLower
ToLower(s) == [i \in 1..Len(s) |-> ToLowerChar(s[i])]

\* strings.EqualFold (on the ASCII strings of the model)
EqualFold(s, t) == ToLower(s) = ToLower(t)

IsDigit(c) == \E i \in 1..10 : Digits[i] = c
DigitVal(c) == (CHOOSE i \in 1..10 : Digits[i] = c) - 1
IsSpace(c) == c \in {" ", "\t", "\n", "\r"}

RECURSIVE TrimLeft(_)
TrimLeft(s) == IF s # <<>> /\ IsSpace(Head(s)) THEN TrimLeft(Tail(s)) ELSE s
RECURSIVE TrimRight(_)
TrimRight(s) ==
    IF s # <<>> /\ IsSpace(s[Len(s)]) THEN TrimRight(SubSeq(s, 1, Len(s) - 1)) ELSE s
\* strings.TrimSpace
TrimSpace(s) == TrimRight(TrimLeft(s))

\* strings.TrimSuffix
TrimSuffix(s, suf) ==
    IF Len(s) >= Len(suf) /\ SubSeq(s, Len(s) - Len(suf) + 1, Len(s)) = suf
    THEN SubSeq(s, 1, Len(s) - Len(suf))
    ELSE s

\* strings.Join
RECURSIVE Join(_, _)
Join(ss, sep) ==
    IF ss = <<>> THEN <<>>
    ELSE IF Len(ss) = 1 THEN ss[1]
    ELSE ss[1] \o sep \o Join(Tail(ss), sep)

\* the printable ASCII characters, code points 32..126 (the double quote, the
\* backslash and the backquote are written by their code points)
Ascii == <<" ","!","U+34","#","$","%","&","'","(",")","*","+",",","-",".","/",
           "0","1","2","3","4","5","6","7","8","9",":",";","<","=",">","?",
           "@","A","B","C","D","E","F","G","H","I","J","K","L","M","N","O",
           "P","Q","R","S","T","U","V","W","X","Y","Z","[","U+92","]","^","_",
           "U+96","a","b","c","d","e","f","g","h","i","j","k","l","m","n","o",
           "p","q","r","s","t","u","v","w","x","y","z","{","|","}","~">>

\* string(rune(n)): the one-character string of code point n, U+FFFD for a
\* value that is no code point (negative, a surrogate, beyond U+10FFFF)
RuneString(n) ==
    IF n \in 32..126 THEN <<Ascii[n - 31]>>
    ELSE IF n < 0 \/ n \in 55296..57343 \/ n > 1114111 THEN <<"U+FFFD">>
    ELSE <<"U+" \o ToString(n)>>

(***************************************************************************)
(* Numbers.                                                                 *)
(***************************************************************************)
\* a float64 of the request, to one decimal: (-1)^neg * (whole + frac/10)
Float(neg, whole, frac) == [neg |-> neg, whole |-> whole, frac |-> frac]
FloatZero == Float(FALSE, 0, 0)
FloatIsZero(f) == f.whole = 0 /\ f.frac = 0
\* the conversion rune(f) of a float64 in range: truncation toward zero
FloatToRune(f) == IF f.neg THEN 0 - f.whole ELSE f.whole
\* the conversion rune(n) of an int keeps the low 32 bits; the ints of the
\* model all lie within the int32 range, where that is the value itself
IntToRune(n) == n

(***************************************************************************)
(* models.SearchRequest, after parseSearchRequest or JSON decoding.        *)
(***************************************************************************)
SearchRequest(query, conditions, status, phase, lat, lon, distance, minAge, maxAge, pageSize, pageToken) ==
    [Query |-> query, Conditions |-> conditions, Status |-> status,
     Phase |-> phase, Latitude |-> lat, Longitude |-> lon,
     Distance |-> distance, MinimumAge |-> minAge, MaximumAge |-> maxAge,
     PageSize |-> pageSize, PageToken |-> pageToken]

(***************************************************************************)
(* internal/cache: key generation.                                          *)
(***************************************************************************)
\* one entry of the map[string]interface{} handed to GenerateCacheKey; the
\* value carries its dynamic type
Param(k, t, v) == [k |-> k, v |-> [t |-> t, v |-> v]]

\* toString: the type switch of cache.go
toString(val) ==
    CASE val.t = "string"   -> val.v
      [] val.t = "[]string" -> Join(val.v, <<",">>)
      [] val.t = "int"      -> RuneString(IntToRune(val.v))
      [] val.t = "float64"  -> RuneString(FloatToRune(val.v))
      [] OTHER              -> <<>>

\* slots of one Go map bucket
BucketCnt == 8

\* all orders of 1..n
Perms(n) == {f \in [1..n -> 1..n] : \A i, j \in 1..n : i # j => f[i] # f[j]}

\* the slots of a bucket visited from offset off, wrapping around, the empty
\* ones skipped: an order of the n entries of a map that fits one bucket
Rotation(n, off) ==
    LET slot(i) == ((i + off) % BucketCnt) + 1
        RECURSIVE visit(_)
        visit(i) == IF i = BucketCnt THEN <<>>
                    ELSE IF slot(i) <= n THEN <<slot(i)>> \o visit(i + 1)
                    ELSE visit(i + 1)
    IN visit(0)

\* "for k, v := range params": the orders in which one range statement may
\* visit a map of n entries inserted in the order 1..n.  The language leaves
\* the order unspecified and the runtime draws it afresh for every range
\* statement: a map that fits one bucket is walked from a random slot, a
\* larger one is spread over buckets by a per-map hash seed.
MapIterOrders(n) ==
    IF n <= BucketCnt THEN {Rotation(n, off) : off \in 0..(BucketCnt - 1)}
    ELSE Perms(n)

\* GenerateCacheKey, for one order of iteration over params
RECURSIVE AppendParams(_, _, _)
AppendParams(key, params, order) ==
    IF order = <<>> THEN key
    ELSE LET e == params[Head(order)]
         IN AppendParams(key \o <<":">> \o e.k \o <<"=">> \o toString(e.v),
                         params, Tail(order))

GenerateCacheKey(base, params, order) == AppendParams(base, params, order)

\* the keys GenerateCacheKey may return for one map
CacheKeys(base, params) ==
    {GenerateCacheKey(base, params, order) : order \in MapIterOrders(Len(params))}

K_query == <<"q","u","e","r","y">>
K_conditions == <<"c","o","n","d","i","t","i","o","n","s">>
K_status == <<"s","t","a","t","u","s">>
K_phase == <<"p","h","a","s","e">>
K_page_token == <<"p","a","g","e","_","t","o","k","e","n">>
K_page_size == <<"p","a","g","e","_","s","i","z","e">>
K_lat == <<"l","a","t">>
K_lon == <<"l","o","n">>
K_distance == <<"d","i","s","t","a","n","c","e">>
P_search == <<"s","e","a","r","c","h">>
P_trial == <<"t","r","i","a","l",":">>

\* the params map built by TrialsHandler.generateCacheKey, in insertion order
CacheKeyParams(req) ==
    << Param(K_query, "string", req.Query),
       Param(K_conditions, "[]string", req.Conditions),
       Param(K_status, "[]string", req.Status),
       Param(K_phase, "[]string", req.Phase),
       Param(K_page_token, "string", req.PageToken),
       Param(K_page_size, "int", req.PageSize) >>
    \o (IF ~FloatIsZero(req.Latitude)
        THEN <<Param(K_lat, "float64", req.Latitude)>>
        ELSE <<>>)
    \o (IF ~FloatIsZero(req.Longitude)
        THEN <<Param(K_lon, "float64", req.Longitude)>>
        ELSE <<>>)
    \o (IF req.Distance # 0
        THEN <<Param(K_distance, "int", req.Distance)>>
        ELSE <<>>)

\* TrialsHandler.generateCacheKey: the keys one call may return
generateCacheKey(prefix, req) == CacheKeys(prefix, CacheKeyParams(req))

(***************************************************************************)
(* internal/api: the upstream document and its conversion.                 *)
(***************************************************************************)
\* StudyData, with the substructures convertStudyToTrial reads.  An absent
\* substructure decodes to its zero value: the empty string, the nil slice.
StudyData(nctId, briefTitle, overallStatus, phases, minimumAge, maximumAge) ==
    [NCTID |-> nctId, BriefTitle |-> briefTitle, OverallStatus |-> overallStatus,
     Phases |-> phases, Conditions |-> <<>>,
     StartDate |-> <<>>, CompletionDate |-> <<>>,
     EligibilityCriteria |-> <<>>, Gender |-> <<>>,
     MinimumAge |-> minimumAge, MaximumAge |-> maximumAge,
     Locations |-> <<>>, CentralContacts |-> <<>>,
     LeadSponsor |-> [Name |-> <<>>, Class |-> <<>>],
     BriefSummary |-> <<>>, DetailedDescription |-> <<>>]

S_registry == <<"c","l","i","n","i","c","a","l","t","r","i","a","l","s",".","g","o","v">>
S_studyURL == <<"h","t","t","p","s",":","/","/">> \o S_registry
              \o <<"/","s","t","u","d","y","/">>

ZeroSponsor == [Name |-> <<>>, Type |-> <<>>, Category |-> <<>>]

\* the models.Location of one LocationData
convertLocation(loc) ==
    [City |-> loc.City, State |-> loc.State, Country |-> loc.Country,
     ZipCode |-> loc.Zip,
     Latitude |-> IF ~FloatIsZero(loc.Lat) THEN loc.Lat ELSE FloatZero,
     Longitude |-> IF ~FloatIsZero(loc.Lon) THEN loc.Lon ELSE FloatZero]

\* convertStudyToTrial tagging a study without phases as "NA"
convertStudyToTrialPhaseNA(study) ==
    [NCTID |-> study.NCTID,
     Title |-> study.BriefTitle,
     Status |-> study.OverallStatus,
     Registry |-> S_registry,
     URL |-> S_studyURL \o study.NCTID,
     Phase |-> IF study.Phases = <<>> THEN <<<<"N","A">>>> ELSE study.Phases,
     Conditions |-> study.Conditions,
     StartDate |-> study.StartDate,
     CompletionDate |-> study.CompletionDate,
     Eligibility |-> [Criteria |-> study.EligibilityCriteria,
                      MinimumAge |-> study.MinimumAge,
                      MaximumAge |-> study.MaximumAge,
                      Gender |-> study.Gender],
     Locations |-> [i \in 1..Len(study.Locations) |->
                        convertLocation(study.Locations[i])],
     Contacts |-> [i \in 1..Len(study.CentralContacts) |->
                        [Name |-> study.CentralContacts[i].Name,
                         Phone |-> study.CentralContacts[i].Phone,
                         Email |-> study.CentralContacts[i].Email]],
     Sponsor |-> IF study.LeadSponsor.Name # <<>>
                 THEN [Name |-> study.LeadSponsor.Name,
                       Type |-> study.LeadSponsor.Class,
                       Category |-> study.LeadSponsor.Class]
                 ELSE ZeroSponsor,
     BriefSummary |-> study.BriefSummary,
     DetailedSummary |-> study.DetailedDescription]

\* convertStudyToTrial
convertStudyToTrial(study) ==
    [NCTID |-> study.NCTID,
     Title |-> study.BriefTitle,
     Status |-> study.OverallStatus,
     Registry |-> S_registry,
     URL |-> S_studyURL \o study.NCTID,
     Phase |-> study.Phases,
     Conditions |-> study.Conditions,
     StartDate |-> study.StartDate,
     CompletionDate |-> study.CompletionDate,
     Eligibility |-> [Criteria |-> study.EligibilityCriteria,
                      MinimumAge |-> study.MinimumAge,
                      MaximumAge |-> study.MaximumAge,
                      Gender |-> study.Gender],
     Locations |-> [i \in 1..Len(study.Locations) |->
                        convertLocation(study.Locations[i])],
     Contacts |-> [i \in 1..Len(study.CentralContacts) |->
                        [Name |-> study.CentralContacts[i].Name,
                         Phone |-> study.CentralContacts[i].Phone,
                         Email |-> study.CentralContacts[i].Email]],
     Sponsor |-> IF study.LeadSponsor.Name # <<>>
                 THEN [Name |-> study.LeadSponsor.Name,
                       Type |-> study.LeadSponsor.Class,
                       Category |-> study.LeadSponsor.Class]
                 ELSE ZeroSponsor,
     BriefSummary |-> study.BriefSummary,
     DetailedSummary |-> study.DetailedDescription]

(***************************************************************************)
(* internal/api: the post-filter.                                           *)
(***************************************************************************)
S_NA == <<"N","A">>

\* containsPhase comparing byte for byte
containsPhaseExact(phases, phase) ==
    \E i \in 1..Len(phases) : phases[i] = phase

\* containsPhase
containsPhase(phases, phase) ==
    \E i \in 1..Len(phases) : EqualFold(phases[i], phase)

\* matchesPhaseFilter
matchesPhaseFilter(trialPhases, requestedPhases) ==
    IF Len(trialPhases) = 0
    THEN containsPhase(requestedPhases, S_NA)
    ELSE \E i \in 1..Len(trialPhases) : \E j \in 1..Len(requestedPhases) :
            EqualFold(trialPhases[i], requestedPhases[j])

\* the run of digits at the head of s
RECURSIVE DigitRun(_)
DigitRun(s) ==
    IF s # <<>> /\ IsDigit(Head(s)) THEN <<Head(s)>> \o DigitRun(Tail(s)) ELSE <<>>

\* the value of a string of digits
RECURSIVE DigitsValue(_)
DigitsValue(ds) ==
    IF ds = <<>> THEN 0
    ELSE 10 * DigitsValue(SubSeq(ds, 1, Len(ds) - 1)) + DigitVal(ds[Len(ds)])

\* strconv.Atoi on a string of digits fails when the value does not fit an
\* int; the digit runs of the model are far shorter than that
AtoiFails(ds) == Len(ds) > 18

\* parseAgeYears reading a number only at the head of the string
parseAgeYearsLeading(ageStr) ==
    IF ageStr = <<>> THEN 0
    ELSE LET s1 == ToLower(TrimSpace(ageStr))
             s2 == TrimSuffix(s1, <<"y","e","a","r","s">>)
             s3 == TrimSuffix(s2, <<"y","e","a","r">>)
             s4 == TrimSuffix(s3, <<"y">>)
             s  == TrimSpace(s4)
             numStr == DigitRun(s)
         IN IF numStr = <<>> \/ AtoiFails(numStr) THEN 0 ELSE DigitsValue(numStr)

\* parseAgeYears
parseAgeYears(ageStr) ==
    IF ageStr = <<>> THEN 0
    ELSE LET s1 == ToLower(TrimSpace(ageStr))
             s2 == TrimSuffix(s1, <<"y","e","a","r","s">>)
             s3 == TrimSuffix(s2, <<"y","e","a","r">>)
             s4 == TrimSuffix(s3, <<"y">>)
             s  == TrimSpace(s4)
         IN IF \E i \in 1..Len(s) : IsDigit(s[i])
            THEN LET i == CHOOSE i \in 1..Len(s) :
                            IsDigit(s[i]) /\ \A j \in 1..(i - 1) : ~IsDigit(s[j])
                     numStr == DigitRun(SubSeq(s, i, Len(s)))
                 IN IF AtoiFails(numStr) THEN 0 ELSE DigitsValue(numStr)
            ELSE 0

\* an age filter that rejects only ranges with no age in common
matchesAgeFilterOverlap(trialMinAge, trialMaxAge, requestedMinAge, requestedMaxAge) ==
    LET reqMin == parseAgeYears(requestedMinAge)
        reqMax == parseAgeYears(requestedMaxAge)
        trialMin == parseAgeYears(trialMinAge)
        trialMax == parseAgeYears(trialMaxAge)
    IN IF reqMin = 0 /\ reqMax = 0 THEN TRUE
       ELSE IF trialMin = 0 /\ trialMax = 0 THEN TRUE
       ELSE IF reqMin > 0 /\ trialMax > 0 /\ trialMax < reqMin THEN FALSE
       ELSE IF reqMax > 0 /\ trialMin > 0 /\ trialMin > reqMax THEN FALSE
       ELSE TRUE

\* matchesAgeFilter
matchesAgeFilter(trialMinAge, trialMaxAge, requestedMinAge, requestedMaxAge) ==
    LET reqMin == parseAgeYears(requestedMinAge)
        reqMax == parseAgeYears(requestedMaxAge)
        trialMin == parseAgeYears(trialMinAge)
        trialMax == parseAgeYears(trialMaxAge)
    IN IF reqMin = 0 /\ reqMax = 0 THEN TRUE
       ELSE IF trialMin = 0 /\ trialMax = 0 THEN TRUE
       ELSE IF reqMin > 0 /\ trialMax > 0 /\ trialMax < reqMin THEN FALSE
       ELSE IF reqMin > 0 /\ trialMin > 0 /\ trialMin > reqMin THEN FALSE
       ELSE IF reqMax > 0 /\ trialMin > 0 /\ trialMin > reqMax THEN FALSE
       ELSE IF reqMax > 0 /\ trialMax > 0 /\ trialMax < reqMax THEN FALSE
       ELSE TRUE

\* the loop body of convertToSearchResponse: is the converted trial kept
keepTrial(trial, req) ==
    /\ (Len(req.Phase) > 0 => matchesPhaseFilter(trial.Phase, req.Phase))
    /\ (req.MinimumAge # <<>> \/ req.MaximumAge # <<>>
          => matchesAgeFilter(trial.Eligibility.MinimumAge,
                              trial.Eligibility.MaximumAge,
                              req.MinimumAge, req.MaximumAge))

\* the loop putting each kept trial in front of those kept before it
RECURSIVE filterStudiesNewestFirst(_, _)
filterStudiesNewestFirst(studies, req) ==
    IF studies = <<>> THEN <<>>
    ELSE LET trial == convertStudyToTrial(Head(studies))
         IN filterStudiesNewestFirst(Tail(studies), req)
            \o (IF keepTrial(trial, req) THEN <<trial>> ELSE <<>>)

\* the trials appended by the loop of convertToSearchResponse
RECURSIVE filterStudies(_, _)
filterStudies(studies, req) ==
    IF studies = <<>> THEN <<>>
    ELSE LET trial == convertStudyToTrial(Head(studies))
         IN (IF keepTrial(trial, req) THEN <<trial>> ELSE <<>>)
            \o filterStudies(Tail(studies), req)

\* ClinicalTrialsGovResponse
ClinicalTrialsGovResponse(studies, nextPageToken, totalCount) ==
    [Studies |-> studies, NextPageToken |-> nextPageToken, TotalCount |-> totalCount]

\* models.SearchResponse
SearchResponse(trials, totalCount, nextPageToken, pageSize) ==
    [Trials |-> trials, TotalCount |-> totalCount,
     NextPageToken |-> nextPageToken, PageSize |-> pageSize]

\* convertToSearchResponse reporting the upstream's totalCount
convertToSearchResponseUpstreamTotal(apiResp, req) ==
    LET trials == filterStudies(apiResp.Studies, req)
    IN SearchResponse(trials, apiResp.TotalCount, apiResp.NextPageToken, Len(trials))

\* convertToSearchResponse that would keep the next-page token only of a page
\* from which no record was filtered out
convertToSearchResponseTokenOfFullPage(apiResp, req) ==
    LET trials == filterStudies(apiResp.Studies, req)
    IN SearchResponse(trials, Len(trials),
                      IF Len(trials) = Len(apiResp.Studies)
                      THEN apiResp.NextPageToken ELSE <<>>,
                      Len(trials))

\* convertToSearchResponse
convertToSearchResponse(apiResp, req) ==
    LET trials == filterStudies(apiResp.Studies, req)
    IN SearchResponse(trials, Len(trials), apiResp.NextPageToken, Len(trials))

(***************************************************************************)
(* internal/api: the outcome of one upstream call.                          *)
(***************************************************************************)
\* what the HTTP client hands back: a transport failure, or a status with a
\* body.  text is the body as text, doc what the JSON decoder has filled in
\* (all of the document when decodes, the part before the fault otherwise).
UpstreamReply(transportOK, status, decodes, text, doc) ==
    [transportOK |-> transportOK, status |-> status, decodes |-> decodes,
     text |-> text, doc |-> doc]

\* fmt.Errorf(format, args...)
Errorf(format, args) == [format |-> format, args |-> args]
\* the nil error
NilErr == [nil |-> TRUE]
\* the nil *SearchResponse / *Trial
NilResult == [nil |-> TRUE]

\* fmt's %d of a non-negative int
RECURSIVE Itoa(_)
Itoa(n) == IF n < 10 THEN <<Digits[n + 1]>>
           ELSE Itoa(n \div 10) \o <<Digits[(n % 10) + 1]>>

StatusTooManyRequests == 429
StatusOK == 200
StatusInternalServerError == 500
StatusNotFound == 404
StatusBadRequest == 400

S_transportErr == <<"E","O","F">>
S_decodeErr == <<"u","n","e","x","p","e","c","t","e","d"," ","E","O","F">>

(***************************************************************************)
(* internal/api: the translation of a request into upstream parameters.     *)
(***************************************************************************)
\* url.Values{}
NoValues == [x \in {} |-> <<>>]
\* url.Values.Set: the key gets this one value
ValuesSet(params, k, v) ==
    [x \in DOMAIN params \cup {k} |-> IF x = k THEN v ELSE params[x]]

\* fmt's %d
FormatInt(n) == IF n < 0 THEN <<"-">> \o Itoa(0 - n) ELSE Itoa(n)
\* fmt's %f, six digits after the point, of a float64 given to one decimal
FormatFloat(f) ==
    (IF f.neg THEN <<"-">> ELSE <<>>) \o Itoa(f.whole)
        \o <<".", Digits[f.frac + 1], "0", "0", "0", "0", "0">>

S_OR == <<" ","O","R"," ">>
S_defaultCond ==
    <<"s","p","i","n","a","l"," ","c","o","r","d"," ","i","n","j","u","r","y",
    " ","O","R"," ","q","u","a","d","r","i","p","l","e","g","i","a"," ",
    "O","R"," ","t","e","t","r","a","p","l","e","g","i","a"," ","O","R",
    " ","p","a","r","a","p","l","e","g","i","a">>
S_defaultStatus ==
    <<"R","E","C","R","U","I","T","I","N","G",",","N","O","T","_","Y","E","T",
    "_","R","E","C","R","U","I","T","I","N","G">>
S_json == <<"j","s","o","n">>
S_true == <<"t","r","u","e">>
S_100 == <<"1","0","0">>
\* the distance in miles when the request gives none
DefaultDistance == 50

\* the query that puts the free text before the condition list
queryCondQueryFirst(req) ==
    IF req.Query # <<>> THEN req.Query
    ELSE IF Len(req.Conditions) > 0 THEN Join(req.Conditions, S_OR)
    ELSE S_defaultCond

\* buildQueryParams: the value set for query.cond
queryCond(req) ==
    IF Len(req.Conditions) > 0 THEN Join(req.Conditions, S_OR)
    ELSE IF req.Query # <<>> THEN req.Query
    ELSE S_defaultCond

\* the status filter that joins the values as the conditions are joined
statusFilterJoinedByOr(req) ==
    IF Len(req.Status) > 0 THEN Join(req.Status, S_OR) ELSE S_defaultStatus

\* buildQueryParams: the value set for filter.overallStatus
statusFilter(req) ==
    IF Len(req.Status) > 0 THEN Join(req.Status, <<",">>) ELSE S_defaultStatus

\* a geo filter for a lone coordinate as well
hasGeoEither(req) == ~FloatIsZero(req.Latitude) \/ ~FloatIsZero(req.Longitude)

\* buildQueryParams: req.Latitude != 0 && req.Longitude != 0
hasGeo(req) == ~FloatIsZero(req.Latitude) /\ ~FloatIsZero(req.Longitude)

\* buildQueryParams: the value set for filter.geo
geoFilter(req) ==
    LET distance == IF req.Distance = 0 THEN DefaultDistance ELSE req.Distance
    IN <<"d","i","s","t","a","n","c","e","(">> \o FormatFloat(req.Latitude)
        \o <<",">> \o FormatFloat(req.Longitude)
        \o <<",">> \o FormatInt(distance) \o <<"m","i",")">>

\* the page size passed on whenever it is not zero
pageSizeNonZero(req) ==
    IF req.PageSize # 0 THEN FormatInt(req.PageSize) ELSE S_100

\* buildQueryParams: the value set for pageSize
pageSize(req) ==
    IF req.PageSize > 0 THEN FormatInt(req.PageSize) ELSE S_100

\* buildQueryParams
buildQueryParams(req) ==
    LET p1 == ValuesSet(NoValues, "format", S_json)
        p2 == ValuesSet(p1, "countTotal", S_true)
        p3 == ValuesSet(p2, "query.cond", queryCond(req))
        p4 == ValuesSet(p3, "filter.overallStatus", statusFilter(req))
        p5 == IF hasGeo(req) THEN ValuesSet(p4, "filter.geo", geoFilter(req)) ELSE p4
        p6 == ValuesSet(p5, "pageSize", pageSize(req))
        p7 == IF req.PageToken # <<>>
              THEN ValuesSet(p6, "pageToken", req.PageToken) ELSE p6
    IN p7

\* SearchTrials with the "!= StatusOK" test placed before the 429 test
SearchTrialsStatusFirst(reply, req) ==
    IF ~reply.transportOK
    THEN [resp |-> NilResult,
          err |-> Errorf("failed to make request: %w", <<S_transportErr>>)]
    ELSE IF reply.status # StatusOK
    THEN [resp |-> NilResult,
          err |-> Errorf("API returned status %d: %s",
                         <<Itoa(reply.status), reply.text>>)]
    ELSE IF ~reply.decodes
    THEN [resp |-> NilResult,
          err |-> Errorf("failed to decode response: %w", <<S_decodeErr>>)]
    ELSE [resp |-> convertToSearchResponse(reply.doc, req), err |-> NilErr]

\* SearchTrials handing back what was decoded before the decoder failed
SearchTrialsPartial(reply, req) ==
    IF ~reply.transportOK
    THEN [resp |-> NilResult,
          err |-> Errorf("failed to make request: %w", <<S_transportErr>>)]
    ELSE IF reply.status = StatusTooManyRequests
    THEN [resp |-> NilResult,
          err |-> Errorf("rate limit exceeded: HTTP 429", <<>>)]
    ELSE IF reply.status # StatusOK
    THEN [resp |-> NilResult,
          err |-> Errorf("API returned status %d: %s",
                         <<Itoa(reply.status), reply.text>>)]
    ELSE IF ~reply.decodes
    THEN [resp |-> convertToSearchResponse(reply.doc, req),
          err |-> Errorf("failed to decode response: %w", <<S_decodeErr>>)]
    ELSE [resp |-> convertToSearchResponse(reply.doc, req), err |-> NilErr]

\* ClinicalTrialsClient.SearchTrials after rateLimit: (response, error) for
\* the reply the upstream gave to the one GET it issues
SearchTrials(reply, req) ==
    IF ~reply.transportOK
    THEN [resp |-> NilResult,
          err |-> Errorf("failed to make request: %w", <<S_transportErr>>)]
    ELSE IF reply.status = StatusTooManyRequests
    THEN [resp |-> NilResult,
          err |-> Errorf("rate limit exceeded: HTTP 429", <<>>)]
    ELSE IF reply.status # StatusOK
    THEN [resp |-> NilResult,
          err |-> Errorf("API returned status %d: %s",
                         <<Itoa(reply.status), reply.text>>)]
    ELSE IF ~reply.decodes
    THEN [resp |-> NilResult,
          err |-> Errorf("failed to decode response: %w", <<S_decodeErr>>)]
    ELSE [resp |-> convertToSearchResponse(reply.doc, req), err |-> NilErr]

\* ClinicalTrialsClient.GetTrialDetails after rateLimit
GetTrialDetails(reply, nctID) ==
    IF ~reply.transportOK
    THEN [resp |-> NilResult,
          err |-> Errorf("failed to make request: %w", <<S_transportErr>>)]
    ELSE IF reply.status = StatusTooManyRequests
    THEN [resp |-> NilResult,
          err |-> Errorf("rate limit exceeded: HTTP 429", <<>>)]
    ELSE IF reply.status # StatusOK
    THEN [resp |-> NilResult,
          err |-> Errorf("trial not found: %s", <<nctID>>)]
    ELSE IF ~reply.decodes
    THEN [resp |-> NilResult,
          err |-> Errorf("failed to decode response: %w", <<S_decodeErr>>)]
    ELSE [resp |-> convertStudyToTrial(reply.doc), err |-> NilErr]

(***************************************************************************)
(* internal/cache: the store (patrickmn/go-cache behind Cache).             *)
(***************************************************************************)
\* Cache.Get that would hand out an entry whatever its expiration instant
CacheGetIgnoringExpiry(c, key, t) ==
    IF key \in DOMAIN c
    THEN [found |-> TRUE, value |-> c[key].Object]
    ELSE [found |-> FALSE, value |-> NilResult]

\* Cache.Get: an entry is returned until its expiration instant has passed
CacheGet(c, key, t) ==
    IF key \in DOMAIN c /\ ~(t > c[key].Expiration)
    THEN [found |-> TRUE, value |-> c[key].Object]
    ELSE [found |-> FALSE, value |-> NilResult]

\* Cache.Set: store with the default TTL.  For is the request the value was
\* fetched for; the program does not keep it, the model does, to tell which
\* call filled an entry.
CacheSet(c, key, value, t, for) ==
    [k \in DOMAIN c \cup {key} |->
        IF k = key
        THEN [Object |-> value, Expiration |-> t + CacheTTL, For |-> for]
        ELSE c[k]]

\* the janitor's DeleteExpired
DeleteExpired(c, t) ==
    [k \in {k \in DOMAIN c : ~(t > c[k].Expiration)} |-> c[k]]

(***************************************************************************)
(* handlers: what the handlers write to the caller.                         *)
(***************************************************************************)
\* writeJSON
writeJSON(statusCode, data) == [status |-> statusCode, body |-> data]
\* writeError with the message prefix + err.Error()
writeError(statusCode, prefix, err) ==
    [status |-> statusCode, body |-> [error |-> [prefix |-> prefix, err |-> err]]]

\* TrialsHandler.SearchTrials and SearchTrialsPost, after the client returned
SearchTrialsWrite(result) ==
    IF result.err # NilErr
    THEN writeError(StatusInternalServerError, "Failed to search trials: ", result.err)
    ELSE writeJSON(StatusOK, result.resp)

\* GetTrialByID passing the upstream's 429 on to its caller
GetTrialByIDWrite429(result) ==
    IF result.err = Errorf("rate limit exceeded: HTTP 429", <<>>)
    THEN writeError(StatusTooManyRequests, "Trial not found: ", result.err)
    ELSE IF result.err # NilErr
    THEN writeError(StatusNotFound, "Trial not found: ", result.err)
    ELSE writeJSON(StatusOK, result.resp)

\* TrialsHandler.GetTrialByID, after the client returned
GetTrialByIDWrite(result) ==
    IF result.err # NilErr
    THEN writeError(StatusNotFound, "Trial not found: ", result.err)
    ELSE writeJSON(StatusOK, result.resp)

\* a handler that stores before it looks at the error
HandlerStoresAlways(enabled, result) == enabled

\* does the handler reach its cache.Set: only past the "if err != nil" return
\* and only with the cache enabled
HandlerStores(enabled, result) == enabled /\ result.err = NilErr

(***************************************************************************)
(* The inputs of the model.                                                 *)
(***************************************************************************)
S_sci == <<"s","c","i">>
S_PHASE2 == <<"P","H","A","S","E","2">>
S_PHASE3 == <<"P","H","A","S","E","3">>
S_30 == <<"3","0">>
S_18Years == <<"1","8"," ","Y","e","a","r","s">>
S_40Years == <<"4","0"," ","Y","e","a","r","s">>
S_65Years == <<"6","5"," ","Y","e","a","r","s">>
S_RECRUITING == <<"R","E","C","R","U","I","T","I","N","G">>
S_NCT01 == <<"N","C","T","0","1">>
S_NCT02 == <<"N","C","T","0","2">>
S_NCT03 == <<"N","C","T","0","3">>
S_tok == <<"t","o","k">>
S_oops == <<"o","o","p","s">>

\* GET /api/v1/trials/search?conditions=sci&phase=PHASE2
ReqPhase == SearchRequest(<<>>, <<S_sci>>, <<>>, <<S_PHASE2>>,
                          FloatZero, FloatZero, 0, <<>>, <<>>, 100, <<>>)
\* the same with minimum_age=30
ReqPhaseAge == SearchRequest(<<>>, <<S_sci>>, <<>>, <<S_PHASE2>>,
                             FloatZero, FloatZero, 0, S_30, <<>>, 100, <<>>)
Requests == {ReqPhase, ReqPhaseAge}

\* the identifiers asked for; the router never passes an empty one, the
\* handler still checks for it
NctIDs == {S_NCT01, <<>>}

Study1 == StudyData(S_NCT01, <<"A">>, S_RECRUITING, <<S_PHASE2>>, S_18Years, S_65Years)
Study2 == StudyData(S_NCT02, <<"B">>, S_RECRUITING, <<>>, <<>>, <<>>)
Study3 == StudyData(S_NCT03, <<"C">>, S_RECRUITING, <<S_PHASE2, S_PHASE3>>, S_40Years, <<>>)

\* the replies the search endpoint may give
SearchReplies ==
    { UpstreamReply(FALSE, 0, FALSE, <<>>, ClinicalTrialsGovResponse(<<>>, <<>>, 0)),
      UpstreamReply(TRUE, StatusTooManyRequests, FALSE, S_oops,
                    ClinicalTrialsGovResponse(<<>>, <<>>, 0)),
      UpstreamReply(TRUE, 503, FALSE, S_oops, ClinicalTrialsGovResponse(<<>>, <<>>, 0)),
      UpstreamReply(TRUE, StatusOK, FALSE, <<>>,
                    ClinicalTrialsGovResponse(<<Study1>>, <<>>, 0)),
      UpstreamReply(TRUE, StatusOK, TRUE, <<>>,
                    ClinicalTrialsGovResponse(<<Study1, Study2, Study3>>, S_tok, 57)),
      UpstreamReply(TRUE, StatusOK, TRUE, <<>>,
                    ClinicalTrialsGovResponse(<<Study3>>, <<>>, 1)) }

\* the replies the single-study endpoint may give
DetailReplies ==
    { UpstreamReply(FALSE, 0, FALSE, <<>>, Study2),
      UpstreamReply(TRUE, StatusTooManyRequests, FALSE, S_oops, Study2),
      UpstreamReply(TRUE, StatusNotFound, FALSE, S_oops, Study2),
      UpstreamReply(TRUE, 503, FALSE, S_oops, Study2),
      UpstreamReply(TRUE, StatusOK, FALSE, <<>>, Study2),
      UpstreamReply(TRUE, StatusOK, TRUE, <<>>, Study1) }

(***************************************************************************)
(* The server: one client, one cache, the handlers' goroutines.             *)
(***************************************************************************)
VARIABLES
    now,            \* the clock, in ticks
    lastRequest,    \* ClinicalTrialsClient.lastRequest
    cache,          \* Cache.memCache: key -> item
    cacheEnabled,   \* TrialsHandler.cacheEnabled
    started,        \* calls started so far
    releases,       \* the instants at which rateLimit let a caller through
    pc,             \* where each caller's handler stands
    op,             \* the handler each caller is in
    req,            \* the SearchRequest of a search
    nctID,          \* the identifier of a lookup
    wake,           \* the instant time.Sleep returns
    throttled,      \* rateLimit invocations of the call in progress
    expect,         \* the live entries filled for this very request at lookup
    last,           \* the call that returned last: what it got and wrote
    conv,           \* one application of convertToSearchResponse, on its own
    eval            \* one application of another function of the client, on its own

vars == <<now, lastRequest, cache, cacheEnabled, started, releases, pc, op, req,
          nctID, wake, throttled, expect, last, conv, eval>>

Callers == 1..NumCallers

NoRequest == SearchRequest(<<>>, <<>>, <<>>, <<>>, FloatZero, FloatZero, 0,
                           <<>>, <<>>, 0, <<>>)
NoReply == UpstreamReply(FALSE, 0, FALSE, <<>>, [nil |-> TRUE])
NoResult == [resp |-> NilResult, err |-> NilErr]
EmptyCache == [k \in {} |-> NilResult]

\* the record of a returned call: the caller, the handler, its input, the
\* upstream's reply (if one was asked for), the client's (response, error),
\* what was written to the caller, and what the call cost
Returned(p, o, r, id, rep, res, written, calls, waits, exp) ==
    [caller |-> p, op |-> o, req |-> r, nctID |-> id, reply |-> rep,
     result |-> res, resp |-> written, upstreamCalls |-> calls,
     throttled |-> waits, expect |-> exp]
\* no conversion under way
NoConv == [req |-> NoRequest, apiResp |-> ClinicalTrialsGovResponse(<<>>, <<>>, 0),
           done |-> FALSE, out |-> SearchResponse(<<>>, 0, <<>>, 0)]

\* no function applied on its own
NoEval == [fn |-> "none", in |-> <<>>, done |-> FALSE, out |-> <<>>]

NoCall == Returned(0, "none", NoRequest, <<>>, NoReply, NoResult,
                   [status |-> 0, body |-> NilResult], 0, 0, {})

\* NewClinicalTrialsClient and NewCache; no request served yet
InitServer ==
    /\ now = 0
    /\ lastRequest = 0 - DefaultRateLimitDelay
    /\ cache = EmptyCache
    /\ started = 0
    /\ releases = <<>>
    /\ pc = [p \in Callers |-> "idle"]
    /\ op = [p \in Callers |-> "none"]
    /\ req = [p \in Callers |-> NoRequest]
    /\ nctID = [p \in Callers |-> <<>>]
    /\ wake = [p \in Callers |-> 0]
    /\ throttled = [p \in Callers |-> 0]
    /\ expect = [p \in Callers |-> {}]
    /\ last = NoCall

\* main: the server starts with the cache enabled or disabled (flag -cache)
Init ==
    /\ InitServer
    /\ cacheEnabled \in BOOLEAN
    /\ conv = NoConv
    /\ eval = NoEval

\* a request arrives and is served by a goroutine of its own; the goroutines
\* are interchangeable, the free one of lowest number takes the request
Arrive(p) ==
    /\ pc[p] = "idle"
    /\ \A q \in Callers : q < p => pc[q] # "idle"
    /\ started < MaxCalls
    /\ started' = started + 1

\* the handler of caller p goes on to the client call
Proceed(p, o, r, id, exp) ==
    /\ pc' = [pc EXCEPT ![p] = "rateLimit"]
    /\ op' = [op EXCEPT ![p] = o]
    /\ req' = [req EXCEPT ![p] = r]
    /\ nctID' = [nctID EXCEPT ![p] = id]
    /\ expect' = [expect EXCEPT ![p] = exp]
    /\ UNCHANGED last

\* a handler that would try the upstream once more after a failed call
ReturnRetryOnce(p, ret) ==
    IF ret.upstreamCalls = 1 /\ ret.result.err # NilErr /\ throttled[p] < 2
    THEN /\ pc' = [pc EXCEPT ![p] = "rateLimit"]
         /\ UNCHANGED <<last, op, req, nctID, wake, throttled, expect>>
    ELSE /\ last' = ret
         /\ pc' = [pc EXCEPT ![p] = "idle"]
         /\ op' = [op EXCEPT ![p] = "none"]
         /\ req' = [req EXCEPT ![p] = NoRequest]
         /\ nctID' = [nctID EXCEPT ![p] = <<>>]
         /\ wake' = [wake EXCEPT ![p] = 0]
         /\ throttled' = [throttled EXCEPT ![p] = 0]
         /\ expect' = [expect EXCEPT ![p] = {}]

\* the handler of caller p returns; its goroutine ends
Return(p, ret) ==
    /\ last' = ret
    /\ pc' = [pc EXCEPT ![p] = "idle"]
    /\ op' = [op EXCEPT ![p] = "none"]
    /\ req' = [req EXCEPT ![p] = NoRequest]
    /\ nctID' = [nctID EXCEPT ![p] = <<>>]
    /\ wake' = [wake EXCEPT ![p] = 0]
    /\ throttled' = [throttled EXCEPT ![p] = 0]
    /\ expect' = [expect EXCEPT ![p] = {}]

\* the values of the live entries that a completed search for r has filled
FilledFor(r) ==
    {cache[k].Object : k \in {k \in DOMAIN cache :
                                cache[k].For = r /\ ~(now > cache[k].Expiration)}}

\* TrialsHandler.SearchTrials up to the client call: parse, compute the key,
\* look it up; on a hit write the cached response and return
SearchTrialsBegin(p) ==
    /\ Arrive(p)
    /\ \E r \in Requests :
         LET exp == IF cacheEnabled THEN FilledFor(r) ELSE {}
         IN IF cacheEnabled
            THEN \E cacheKey \in generateCacheKey(P_search, r) :
                   LET got == CacheGet(cache, cacheKey, now)
                   IN IF got.found /\ got.value.type = "SearchResponse"
                      THEN Return(p, Returned(p, "SearchTrials", r, <<>>, NoReply,
                                     NoResult, writeJSON(StatusOK, got.value.v),
                                     0, 0, exp))
                      ELSE Proceed(p, "SearchTrials", r, <<>>, exp)
                           /\ UNCHANGED <<wake, throttled>>
            ELSE Proceed(p, "SearchTrials", r, <<>>, exp)
                 /\ UNCHANGED <<wake, throttled>>
    /\ UNCHANGED <<now, lastRequest, cache, cacheEnabled, releases, conv, eval>>

\* TrialsHandler.SearchTrialsPost up to the client call: no cache
SearchTrialsPostBegin(p) ==
    /\ Arrive(p)
    /\ \E r \in Requests : Proceed(p, "SearchTrialsPost", r, <<>>, {})
    /\ UNCHANGED <<now, lastRequest, cache, cacheEnabled, releases, wake, throttled, conv, eval>>

\* TrialsHandler.GetTrialByID up to the client call
GetTrialByIDBegin(p) ==
    /\ Arrive(p)
    /\ \E id \in NctIDs :
         IF id = <<>>
         THEN Return(p, Returned(p, "GetTrialByID", NoRequest, id, NoReply, NoResult,
                        writeError(StatusBadRequest, "NCT ID is required", NilErr),
                        0, 0, {}))
         ELSE LET got == CacheGet(cache, P_trial \o id, now)
              IN IF cacheEnabled /\ got.found /\ got.value.type = "Trial"
                 THEN Return(p, Returned(p, "GetTrialByID", NoRequest, id, NoReply,
                                NoResult, writeJSON(StatusOK, got.value.v), 0, 0, {}))
                 ELSE Proceed(p, "GetTrialByID", NoRequest, id, {})
                      /\ UNCHANGED <<wake, throttled>>
    /\ UNCHANGED <<now, lastRequest, cache, cacheEnabled, releases, conv, eval>>

\* rateLimit without its time.Sleep
SleepForNoWait(elapsed) == 0

\* the wait rateLimit computes from the lastRequest it read: none when
\* minDelay has elapsed, the remainder otherwise
SleepFor(elapsed) ==
    IF elapsed < DefaultRateLimitDelay THEN DefaultRateLimitDelay - elapsed ELSE 0

\* rateLimit, first half: elapsed := time.Since(c.lastRequest) and the start
\* of time.Sleep.  No lock is held: other callers run between this step and
\* the next.
RateLimitRead(p) ==
    /\ pc[p] = "rateLimit"
    /\ wake' = [wake EXCEPT ![p] = now + SleepFor(now - lastRequest)]
    /\ throttled' = [throttled EXCEPT ![p] = @ + 1]
    /\ pc' = [pc EXCEPT ![p] = "sleep"]
    /\ UNCHANGED <<now, lastRequest, cache, cacheEnabled, started, releases, op,
                   req, nctID, expect, last, conv, eval>>

\* rateLimit that would wait for the token of c.rateLimiter, which
\* NewClinicalTrialsClient puts in once and nothing puts back: the first
\* caller takes it, every later one waits on the empty channel
RateLimitStampOnToken(p) ==
    /\ pc[p] = "sleep"
    /\ now >= wake[p]
    /\ releases = <<>>
    /\ lastRequest' = now
    /\ releases' = Append(releases, now)
    /\ pc' = [pc EXCEPT ![p] = "http"]
    /\ UNCHANGED <<now, cache, cacheEnabled, started, op, req, nctID, wake,
                   throttled, expect, last, conv, eval>>

\* rateLimit without its last statement: the caller is let through and
\* c.lastRequest keeps its old value
RateLimitNoStamp(p) ==
    /\ pc[p] = "sleep"
    /\ now >= wake[p]
    /\ lastRequest' = lastRequest
    /\ releases' = Append(releases, now)
    /\ pc' = [pc EXCEPT ![p] = "http"]
    /\ UNCHANGED <<now, cache, cacheEnabled, started, op, req, nctID, wake,
                   throttled, expect, last, conv, eval>>

\* rateLimit, second half: the sleep is over, c.lastRequest = time.Now(); the
\* caller is let through to the upstream
RateLimitStamp(p) ==
    /\ pc[p] = "sleep"
    /\ now >= wake[p]
    /\ lastRequest' = now
    /\ releases' = Append(releases, now)
    /\ pc' = [pc EXCEPT ![p] = "http"]
    /\ UNCHANGED <<now, cache, cacheEnabled, started, op, req, nctID, wake,
                   throttled, expect, last, conv, eval>>

\* the rest of a cached handler under first-writer-wins: a caller that finds
\* a live entry under its key leaves it alone
FinishFirstWriterWins(p, rep, res, value, keys, written) ==
    /\ Return(p, Returned(p, op[p], req[p], nctID[p], rep, res, written,
                          1, throttled[p], expect[p]))
    /\ IF HandlerStores(cacheEnabled, res)
       THEN \E cacheKey \in keys :
                IF CacheGet(cache, cacheKey, now).found
                THEN cache' = cache
                ELSE cache' = CacheSet(cache, cacheKey, value, now, req[p])
       ELSE cache' = cache
    /\ UNCHANGED <<now, lastRequest, cacheEnabled, started, releases, conv, eval>>

\* the rest of a cached handler: the client's one httpClient.Get has been
\* answered by rep, the client returned res, the handler stores value under
\* one of keys if it gets that far, writes and returns
Finish(p, rep, res, value, keys, written) ==
    /\ Return(p, Returned(p, op[p], req[p], nctID[p], rep, res, written,
                          1, throttled[p], expect[p]))
    /\ IF HandlerStores(cacheEnabled, res)
       THEN \E cacheKey \in keys :
                cache' = CacheSet(cache, cacheKey, value, now, req[p])
       ELSE cache' = cache
    /\ UNCHANGED <<now, lastRequest, cacheEnabled, started, releases, conv, eval>>

\* TrialsHandler.SearchTrials from the client call on
SearchTrialsEnd(p) ==
    /\ pc[p] = "http"
    /\ op[p] = "SearchTrials"
    /\ \E rep \in SearchReplies :
         LET res == SearchTrials(rep, req[p])
         IN Finish(p, rep, res, [type |-> "SearchResponse", v |-> res.resp],
                   generateCacheKey(P_search, req[p]), SearchTrialsWrite(res))

\* SearchTrialsPost that would store its response as the GET handler does
SearchTrialsPostEndStoring(p) ==
    /\ pc[p] = "http"
    /\ op[p] = "SearchTrialsPost"
    /\ \E rep \in SearchReplies :
         LET res == SearchTrials(rep, req[p])
         IN Finish(p, rep, res, [type |-> "SearchResponse", v |-> res.resp],
                   generateCacheKey(P_search, req[p]), SearchTrialsWrite(res))

\* TrialsHandler.SearchTrialsPost from the client call on: nothing is stored
SearchTrialsPostEnd(p) ==
    /\ pc[p] = "http"
    /\ op[p] = "SearchTrialsPost"
    /\ \E rep \in SearchReplies :
         LET res == SearchTrials(rep, req[p])
         IN Return(p, Returned(p, op[p], req[p], nctID[p], rep, res,
                               SearchTrialsWrite(res), 1, throttled[p], expect[p]))
    /\ UNCHANGED <<now, lastRequest, cache, cacheEnabled, started, releases, conv, eval>>

\* TrialsHandler.GetTrialByID from the client call on
GetTrialByIDEnd(p) ==
    /\ pc[p] = "http"
    /\ op[p] = "GetTrialByID"
    /\ \E rep \in DetailReplies :
         LET res == GetTrialDetails(rep, nctID[p])
         IN Finish(p, rep, res, [type |-> "Trial", v |-> res.resp],
                   {P_trial \o nctID[p]}, GetTrialByIDWrite(res))

\* a second passes
Tick ==
    /\ now < MaxTicks
    /\ now' = now + 1
    /\ UNCHANGED <<lastRequest, cache, cacheEnabled, started, releases, pc, op,
                   req, nctID, wake, throttled, expect, last, conv, eval>>

\* the cache's janitor runs and finds something to reclaim
Sweep ==
    /\ \E k \in DOMAIN cache : now > cache[k].Expiration
    /\ cache' = DeleteExpired(cache, now)
    /\ UNCHANGED <<now, lastRequest, cacheEnabled, started, releases, pc, op,
                   req, nctID, wake, throttled, expect, last, conv, eval>>

Next ==
    \/ \E p \in Callers : SearchTrialsBegin(p)
    \/ \E p \in Callers : SearchTrialsPostBegin(p)
    \/ \E p \in Callers : GetTrialByIDBegin(p)
    \/ \E p \in Callers : RateLimitRead(p)
    \/ \E p \in Callers : RateLimitStamp(p)
    \/ \E p \in Callers : SearchTrialsEnd(p)
    \/ \E p \in Callers : SearchTrialsPostEnd(p)
    \/ \E p \in Callers : GetTrialByIDEnd(p)
    \/ Tick
    \/ Sweep

Spec == Init /\ [][Next]_vars

(***************************************************************************)
(* The server with its requests arriving one after another: a single       *)
(* caller, each call returned before the next begins.                      *)
(***************************************************************************)
NextSerial ==
    \/ SearchTrialsBegin(1)
    \/ SearchTrialsPostBegin(1)
    \/ GetTrialByIDBegin(1)
    \/ RateLimitRead(1)
    \/ RateLimitStamp(1)
    \/ SearchTrialsEnd(1)
    \/ SearchTrialsPostEnd(1)
    \/ GetTrialByIDEnd(1)
    \/ Tick
    \/ Sweep

SpecSerial == Init /\ [][NextSerial]_vars

(***************************************************************************)
(* The client under the scheduling the runtime gives it: time passes, a    *)
(* runnable goroutine runs, a sleep ends when its instant has come, and    *)
(* httpClient (Timeout: 30s) ends every outbound call.  The server runs    *)
(* with -cache=false, so that every request reaches the client; requests   *)
(* need not arrive.                                                        *)
(***************************************************************************)
InitLive ==
    /\ InitServer
    /\ cacheEnabled = FALSE
    /\ conv = NoConv
    /\ eval = NoEval

\* time goes on past the horizon of the arrivals while a caller sleeps
Elapse ==
    /\ now >= MaxTicks
    /\ \E p \in Callers : pc[p] = "sleep" /\ wake[p] > now
    /\ now' = now + 1
    /\ UNCHANGED <<lastRequest, cache, cacheEnabled, started, releases, pc, op,
                   req, nctID, wake, throttled, expect, last, conv, eval>>

NextLive ==
    \/ \E p \in Callers : SearchTrialsBegin(p)
    \/ \E p \in Callers : SearchTrialsPostBegin(p)
    \/ \E p \in Callers : GetTrialByIDBegin(p)
    \/ \E p \in Callers : RateLimitRead(p)
    \/ \E p \in Callers : RateLimitStamp(p)
    \/ \E p \in Callers : SearchTrialsEnd(p)
    \/ \E p \in Callers : SearchTrialsPostEnd(p)
    \/ \E p \in Callers : GetTrialByIDEnd(p)
    \/ Tick
    \/ Elapse

Fairness ==
    /\ WF_vars(Tick) /\ WF_vars(Elapse)
    /\ \A p \in Callers :
          /\ WF_vars(RateLimitRead(p)) /\ WF_vars(RateLimitStamp(p))
          /\ WF_vars(SearchTrialsEnd(p)) /\ WF_vars(SearchTrialsPostEnd(p))
          /\ WF_vars(GetTrialByIDEnd(p))

SpecLive == InitLive /\ [][NextLive]_vars /\ Fairness

(***************************************************************************)
(* convertToSearchResponse on its own, over upstream pages and requests.    *)
(***************************************************************************)
\* studies in one upstream page
MaxStudies == 2

S_phase2 == <<"p","h","a","s","e","2">>
S_na == <<"n","a">>
S_70 == <<"7","0">>
S_10 == <<"1","0">>
S_50 == <<"5","0">>

RECURSIVE SeqsUpTo(_, _)
SeqsUpTo(S, n) ==
    IF n = 0 THEN {<<>>}
    ELSE LET shorter == SeqsUpTo(S, n - 1)
         IN shorter \cup {Append(q, x) : q \in {q \in shorter : Len(q) = n - 1}, x \in S}

ConvStudies == {Study1, Study2, Study3}
ConvPhases == {<<>>, <<S_PHASE2>>, <<S_NA>>, <<S_na>>, <<S_phase2, S_PHASE3>>}
ConvMinAges == {<<>>, S_30, S_70}
ConvMaxAges == {<<>>, S_10, S_50}
ConvRequests ==
    {SearchRequest(<<>>, <<S_sci>>, <<>>, ph, FloatZero, FloatZero, 0, mn, mx, 100, <<>>) :
        ph \in ConvPhases, mn \in ConvMinAges, mx \in ConvMaxAges}
ConvPages ==
    {ClinicalTrialsGovResponse(ss, tok, total) :
        ss \in SeqsUpTo(ConvStudies, MaxStudies), tok \in {<<>>, S_tok}, total \in {0, 57}}

InitConvert ==
    /\ InitServer
    /\ cacheEnabled = TRUE
    /\ eval = NoEval
    /\ \E r \in ConvRequests, page \in ConvPages :
          conv = [req |-> r, apiResp |-> page, done |-> FALSE,
                  out |-> SearchResponse(<<>>, 0, <<>>, 0)]

\* the decoded page is converted for the request
Convert ==
    /\ ~conv.done
    /\ conv' = [conv EXCEPT !.done = TRUE,
                            !.out = convertToSearchResponse(conv.apiResp, conv.req)]
    /\ UNCHANGED <<now, lastRequest, cache, cacheEnabled, started, releases, pc, op,
                   req, nctID, wake, throttled, expect, last, eval>>

NextConvert == Convert

SpecConvert == InitConvert /\ [][NextConvert]_vars

(***************************************************************************)
(* buildQueryParams on its own, over requests.                              *)
(***************************************************************************)
S_tetraplegia == <<"t","e","t","r","a","p","l","e","g","i","a">>
S_stemCells == <<"s","t","e","m"," ","c","e","l","l","s">>
S_COMPLETED == <<"C","O","M","P","L","E","T","E","D">>
ParamConditions == {<<>>, <<S_sci>>, <<S_sci, S_tetraplegia>>}
ParamQueries == {<<>>, S_stemCells}
ParamStatuses == {<<>>, <<S_RECRUITING>>, <<S_RECRUITING, S_COMPLETED>>}
\* 34.1 and -118.2
ParamLatitudes == {FloatZero, Float(FALSE, 34, 1)}
ParamLongitudes == {FloatZero, Float(TRUE, 118, 2)}
ParamDistances == {0, 25}
\* a POST body may carry any page size, a negative one included
ParamPageSizes == {0 - 1, 0, 25}
ParamPageTokens == {<<>>, S_tok}
ParamRequests ==
    {SearchRequest(q, c, s, <<>>, lat, lon, d, <<>>, <<>>, ps, pt) :
        q \in ParamQueries, c \in ParamConditions, s \in ParamStatuses,
        lat \in ParamLatitudes, lon \in ParamLongitudes, d \in ParamDistances,
        ps \in ParamPageSizes, pt \in ParamPageTokens}

InitParams ==
    /\ InitServer
    /\ cacheEnabled = TRUE
    /\ conv = NoConv
    /\ \E r \in ParamRequests :
          eval = [fn |-> "buildQueryParams", in |-> r, done |-> FALSE, out |-> NoValues]

\* the request is translated
BuildQueryParams ==
    /\ eval.fn = "buildQueryParams"
    /\ ~eval.done
    /\ eval' = [eval EXCEPT !.done = TRUE, !.out = buildQueryParams(eval.in)]
    /\ UNCHANGED <<now, lastRequest, cache, cacheEnabled, started, releases, pc, op,
                   req, nctID, wake, throttled, expect, last, conv>>

NextParams == BuildQueryParams

SpecParams == InitParams /\ [][NextParams]_vars

(***************************************************************************)
(* One page of a search on its own: the request is translated for the      *)
(* upstream and the page the upstream answers with is converted.           *)
(***************************************************************************)
S_tok2 == <<"t","2">>
PagingTokens == {<<>>, S_tok, S_tok2}
PagingRequests ==
    {SearchRequest(<<>>, <<S_sci>>, <<>>, ph, FloatZero, FloatZero, 0, mn, <<>>, 100, pt) :
        ph \in {<<>>, <<S_PHASE3>>}, mn \in {<<>>, S_30}, pt \in PagingTokens}
PagingPages ==
    {ClinicalTrialsGovResponse(ss, tok, 57) :
        ss \in SeqsUpTo(ConvStudies, MaxStudies), tok \in PagingTokens}

InitPaging ==
    /\ InitServer
    /\ cacheEnabled = TRUE
    /\ \E r \in PagingRequests, page \in PagingPages :
          /\ eval = [fn |-> "buildQueryParams", in |-> r, done |-> FALSE, out |-> NoValues]
          /\ conv = [req |-> r, apiResp |-> page, done |-> FALSE,
                     out |-> SearchResponse(<<>>, 0, <<>>, 0)]

\* SearchTrials: the parameters are built before the call, the page is
\* converted after it
ConvertPage == eval.done /\ Convert

NextPaging == BuildQueryParams \/ ConvertPage

SpecPaging == InitPaging /\ [][NextPaging]_vars

(***************************************************************************)
(* generateCacheKey on its own, over pairs of requests.                     *)
(***************************************************************************)
\* 34.1 and 34.9, -118.2
KeyLatitudes == {FloatZero, Float(FALSE, 34, 1), Float(FALSE, 34, 9)}
KeyLongitudes == {FloatZero, Float(TRUE, 118, 2)}
KeyPageSizes == {25, 100}
KeyRequests ==
    {SearchRequest(<<>>, <<S_sci>>, <<>>, <<>>, lat, lon, 0, <<>>, <<>>, ps, pt) :
        lat \in KeyLatitudes, lon \in KeyLongitudes, ps \in KeyPageSizes,
        pt \in ParamPageTokens}

InitKeys ==
    /\ InitServer
    /\ cacheEnabled = TRUE
    /\ conv = NoConv
    /\ \E a \in KeyRequests, b \in KeyRequests :
          eval = [fn |-> "generateCacheKey", in |-> <<a, b>>, done |-> FALSE,
                  out |-> <<>>]

\* the key of each of the two requests is computed
GenerateCacheKeys ==
    /\ eval.fn = "generateCacheKey"
    /\ ~eval.done
    /\ \E ka \in generateCacheKey(P_search, eval.in[1]) :
       \E kb \in generateCacheKey(P_search, eval.in[2]) :
          eval' = [eval EXCEPT !.done = TRUE, !.out = <<ka, kb>>]
    /\ UNCHANGED <<now, lastRequest, cache, cacheEnabled, started, releases, pc, op,
                   req, nctID, wake, throttled, expect, last, conv>>

NextKeys == GenerateCacheKeys

SpecKeys == InitKeys /\ [][NextKeys]_vars

\* the ages looked at when two ranges are compared
MaxAge == 120

(***************************************************************************)
(* parseAgeYears and matchesAgeFilter on their own, over age strings.       *)
(***************************************************************************)
S_65 == <<"6","5">>
S_Y == <<"Y">>
S_18Y == <<"1","8","Y">>
S_age18 == <<"a","g","e"," ","1","8">>
S_upTo65Years == <<"u","p"," ","t","o"," ","6","5"," ","y","e","a","r","s">>
S_40yearPadded == <<" ","4","0"," ","y","e","a","r"," ">>
S_adult == <<"a","d","u","l","t">>
AgeStrings ==
    {<<>>, S_18Years, S_65, S_Y, S_18Y, S_age18, S_upTo65Years, S_40yearPadded,
     S_adult, S_30}
\* the age bounds of a trial and of a request
TrialAges == {<<>>, S_18Years, S_40Years, S_65Years}
RequestedAges == {<<>>, S_10, S_30, S_50, S_70}
AgeFilterArgs ==
    [trialMinAge : TrialAges, trialMaxAge : TrialAges,
     requestedMinAge : RequestedAges, requestedMaxAge : RequestedAges]

InitAge ==
    /\ InitServer
    /\ cacheEnabled = TRUE
    /\ conv = NoConv
    /\ \/ \E s \in AgeStrings :
            eval = [fn |-> "parseAgeYears", in |-> s, done |-> FALSE, out |-> 0]
       \/ \E a \in AgeFilterArgs :
            eval = [fn |-> "matchesAgeFilter", in |-> a, done |-> FALSE, out |-> FALSE]

\* the age string is parsed
ParseAgeYears ==
    /\ eval.fn = "parseAgeYears"
    /\ ~eval.done
    /\ eval' = [eval EXCEPT !.done = TRUE, !.out = parseAgeYears(eval.in)]
    /\ UNCHANGED <<now, lastRequest, cache, cacheEnabled, started, releases, pc, op,
                   req, nctID, wake, throttled, expect, last, conv>>

\* the age bounds of a trial are matched against the requested ones
MatchesAgeFilter ==
    /\ eval.fn = "matchesAgeFilter"
    /\ ~eval.done
    /\ eval' = [eval EXCEPT !.done = TRUE,
                            !.out = matchesAgeFilter(eval.in.trialMinAge,
                                                     eval.in.trialMaxAge,
                                                     eval.in.requestedMinAge,
                                                     eval.in.requestedMaxAge)]
    /\ UNCHANGED <<now, lastRequest, cache, cacheEnabled, started, releases, pc, op,
                   req, nctID, wake, throttled, expect, last, conv>>

NextAge == ParseAgeYears \/ MatchesAgeFilter

SpecAge == InitAge /\ [][NextAge]_vars

(***************************************************************************)
(* Properties.                                                              *)
(***************************************************************************)
IsSearch(c) == c.op \in {"SearchTrials", "SearchTrialsPost"}
\* the call went to the upstream and the upstream answered with this status
Answered(c, status) ==
    c.upstreamCalls > 0 /\ c.reply.transportOK /\ c.reply.status = status
\* the call went to the upstream and did not get a decodable 200
Failed(c) ==
    /\ c.upstreamCalls > 0
    /\ ~(c.reply.transportOK /\ c.reply.status = StatusOK /\ c.reply.decodes)
RateLimitErr == Errorf("rate limit exceeded: HTTP 429", <<>>)

\* C1: a GET search for a request whose response a completed, identical
\* search has put in the cache, and which has not expired, is answered from
\* the cache: no rateLimit, no upstream call, the stored response.
C1_IdenticalSearchServedFromCache ==
    (last.op = "SearchTrials" /\ last.expect # {})
        => /\ last.upstreamCalls = 0
           /\ last.throttled = 0
           /\ \E o \in last.expect : last.resp = writeJSON(StatusOK, o.v)

\* C2: the cache key is a function of the request: whatever has been stored
\* for one search request has been stored under one key.
C2_OneKeyPerRequest ==
    \A k1, k2 \in DOMAIN cache :
        (/\ cache[k1].Object.type = "SearchResponse"
         /\ cache[k2].Object.type = "SearchResponse"
         /\ cache[k1].For = cache[k2].For) => k1 = k2

\* C3: any two releases by rateLimit, whichever callers they let through,
\* are at least minDelay apart.
C3_ReleasesSpaced ==
    \A i, j \in 1..Len(releases) :
        i < j => releases[j] - releases[i] >= DefaultRateLimitDelay

\* C4: with a single caller, each return of rateLimit comes at least
\* minDelay after the previous one.
C4_SingleCallerSpaced ==
    \A i \in 1..(Len(releases) - 1) :
        releases[i + 1] >= releases[i] + DefaultRateLimitDelay
\* the second call had to sleep and was let through as soon as it could be
C4_Witness ==
    /\ Len(releases) = 2
    /\ releases[2] = releases[1] + DefaultRateLimitDelay
    /\ last.throttled = 1

\* C5: the cache changes only in a step in which a call that got a decodable
\* 200 from the upstream returns, or in a sweep of the janitor; a call that
\* fails leaves it as it was.
C5_CacheWrittenOnlyOnSuccess ==
    [][cache' # cache =>
          \/ cache' = DeleteExpired(cache, now)
          \/ (last'.upstreamCalls = 1 /\ ~Failed(last') /\ last'.result.err = NilErr)]_vars
\* a search failed while the cache held an entry
C5_Witness ==
    /\ Failed(last)
    /\ last.op \in {"SearchTrials", "GetTrialByID"}
    /\ DOMAIN cache # {}

\* C6: on an upstream 429 the client returns the rate-limit error and no
\* response, after its one request; that error is none of the errors it
\* returns for another status.
C6_RateLimitErrorDistinct ==
    Answered(last, StatusTooManyRequests)
        => /\ last.result.err = RateLimitErr
           /\ last.result.resp = NilResult
           /\ last.upstreamCalls = 1
           /\ \A rep \in SearchReplies \cup DetailReplies :
                (rep.transportOK /\ rep.status \notin {StatusOK, StatusTooManyRequests})
                    => /\ SearchTrials(rep, last.req).err # last.result.err
                       /\ GetTrialDetails(rep, last.nctID).err # last.result.err
\* a lookup was answered 429
C6_Witness ==
    /\ Answered(last, StatusTooManyRequests)
    /\ last.op = "GetTrialByID"
    /\ last.result.err = RateLimitErr

\* C7: when the upstream answers 429 the service answers its caller 429.
C7_Upstream429AnsweredWith429 ==
    Answered(last, StatusTooManyRequests) => last.resp.status = StatusTooManyRequests

C9_NoPartialOnFailure ==
    (IsSearch(last) /\ Failed(last))
        => /\ last.result.err # NilErr
           /\ last.result.resp = NilResult
           /\ last.resp.status = StatusInternalServerError
           /\ DOMAIN last.resp.body = {"error"}
\* the decoder failed after it had decoded a study
C9_Witness ==
    /\ IsSearch(last)
    /\ Failed(last)
    /\ last.reply.status = StatusOK
    /\ Len(last.reply.doc.Studies) > 0

\* the studies of a page that pass the request's filters
Surviving(page, r) ==
    {i \in 1..Len(page.Studies) : keepTrial(convertStudyToTrial(page.Studies[i]), r)}

C11_TotalCountIsUpstreamTotal ==
    conv.done => conv.out.TotalCount = conv.apiResp.TotalCount

\* a is b with some of its elements left out
RECURSIVE IsSubsequence(_, _)
IsSubsequence(a, b) ==
    IF a = <<>> THEN TRUE
    ELSE IF b = <<>> THEN FALSE
    ELSE IF Head(a) = Head(b) THEN IsSubsequence(Tail(a), Tail(b))
    ELSE IsSubsequence(a, Tail(b))

\* C12: the trials of a response are the converted studies of the upstream
\* page, in the upstream's order, with some left out: none moved, none twice.
C12_TrialsSubsequenceOfStudies ==
    conv.done
        => IsSubsequence(conv.out.Trials,
                         [i \in 1..Len(conv.apiResp.Studies) |->
                             convertStudyToTrial(conv.apiResp.Studies[i])])
\* two different studies of a page were both kept
C12_Witness ==
    /\ conv.done
    /\ Len(conv.out.Trials) = 2
    /\ conv.out.Trials[1].NCTID # conv.out.Trials[2].NCTID
    /\ conv.out.Trials[1].NCTID = conv.apiResp.Studies[1].NCTID

\* buildQueryParams has been applied to a request
Translated == eval.fn = "buildQueryParams" /\ eval.done

\* C13: query.cond is the condition terms joined by " OR " when there are
\* any, whatever the free-text query; else the query as given when it is not
\* empty; else the fixed default expression.
C13_QueryCondTranslation ==
    Translated
        => /\ "query.cond" \in DOMAIN eval.out
           /\ eval.out["query.cond"] =
                 (IF eval.in.Conditions # <<>> THEN Join(eval.in.Conditions, S_OR)
                  ELSE IF eval.in.Query # <<>> THEN eval.in.Query
                  ELSE S_defaultCond)
           /\ (eval.in.Conditions = <<S_sci, S_tetraplegia>>
                 => eval.out["query.cond"] =
                      <<"s","c","i"," ","O","R"," ","t","e","t","r","a","p","l","e","g","i","a">>)
\* two conditions and a free-text query were given: the query is ignored
C13_Witness ==
    /\ Translated
    /\ eval.in.Query = S_stemCells
    /\ Len(eval.in.Conditions) = 2
    /\ eval.out["query.cond"] =
          <<"s","c","i"," ","O","R"," ","t","e","t","r","a","p","l","e","g","i","a">>

\* C14: filter.overallStatus is the caller's status values joined by ","
\* when there are any, and "RECRUITING,NOT_YET_RECRUITING" otherwise.
C14_StatusFilterTranslation ==
    Translated
        => /\ "filter.overallStatus" \in DOMAIN eval.out
           /\ eval.out["filter.overallStatus"] =
                 (IF eval.in.Status # <<>> THEN Join(eval.in.Status, <<",">>)
                  ELSE S_defaultStatus)
           /\ (eval.in.Status = <<S_RECRUITING, S_COMPLETED>>
                 => eval.out["filter.overallStatus"] =
                      <<"R","E","C","R","U","I","T","I","N","G",",","C","O","M","P","L","E","T","E","D">>)
\* two status values were given
C14_Witness ==
    /\ Translated
    /\ Len(eval.in.Status) = 2
    /\ eval.out["filter.overallStatus"] =
          <<"R","E","C","R","U","I","T","I","N","G",",","C","O","M","P","L","E","T","E","D">>

\* C15: filter.geo is set exactly when latitude and longitude are both
\* non-zero, and then carries the caller's distance, or 50 when that is 0.
C15_GeoFilterTranslation ==
    Translated
        => LET both == ~FloatIsZero(eval.in.Latitude) /\ ~FloatIsZero(eval.in.Longitude)
               miles == IF eval.in.Distance = 0 THEN 50 ELSE eval.in.Distance
           IN /\ ("filter.geo" \in DOMAIN eval.out) <=> both
              /\ both => eval.out["filter.geo"] =
                            <<"d","i","s","t","a","n","c","e","(">>
                            \o FormatFloat(eval.in.Latitude) \o <<",">>
                            \o FormatFloat(eval.in.Longitude) \o <<",">>
                            \o FormatInt(miles) \o <<"m","i",")">>
              /\ (both /\ eval.in.Distance = 0)
                    => eval.out["filter.geo"] =
                         <<"d","i","s","t","a","n","c","e","(","3","4",".","1","0","0","0","0","0",",","-","1","1","8",".","2","0","0","0","0","0",",","5","0","m","i",")">>
\* both coordinates and no distance were given: 50 miles
C15_Witness ==
    /\ Translated
    /\ ~FloatIsZero(eval.in.Latitude)
    /\ ~FloatIsZero(eval.in.Longitude)
    /\ eval.in.Distance = 0
    /\ eval.out["filter.geo"] =
          <<"d","i","s","t","a","n","c","e","(","3","4",".","1","0","0","0","0","0",",","-","1","1","8",".","2","0","0","0","0","0",",","5","0","m","i",")">>

\* C16: whatever the request, format is json, countTotal is true, and
\* pageSize is the caller's page size when that is > 0 and 100 otherwise.
C16_FixedParamsAndPageSize ==
    Translated
        => /\ {"format", "countTotal", "pageSize"} \subseteq DOMAIN eval.out
           /\ eval.out["format"] = <<"j","s","o","n">>
           /\ eval.out["countTotal"] = <<"t","r","u","e">>
           /\ eval.out["pageSize"] =
                 (IF eval.in.PageSize > 0 THEN Itoa(eval.in.PageSize)
                  ELSE <<"1","0","0">>)
           /\ (eval.in.PageSize = 25 => eval.out["pageSize"] = <<"2","5">>)
\* a negative page size was given
C16_Witness ==
    /\ Translated
    /\ eval.in.PageSize < 0
    /\ eval.out["pageSize"] = <<"1","0","0">>

\* study i of the converted page is among the trials of the response
Kept(i) ==
    \E j \in 1..Len(conv.out.Trials) :
        conv.out.Trials[j] = convertStudyToTrial(conv.apiResp.Studies[i])
\* a page was converted for a request without age bounds
ConvertedNoAges ==
    conv.done /\ conv.req.MinimumAge = <<>> /\ conv.req.MaximumAge = <<>>
\* some tag equals some requested phase, case-insensitively
SomeTagRequested(tags, requested) ==
    \E i \in 1..Len(tags) : \E j \in 1..Len(requested) :
        EqualFold(tags[i], requested[j])

\* C17, as stated: with phases requested, a trial without phase tags is kept
\* exactly when the requested list contains "NA", a trial with tags exactly
\* when a tag equals a requested phase case-insensitively; with no phases
\* requested no trial is dropped.
C17_PhasePredicate ==
    ConvertedNoAges
        => \A i \in 1..Len(conv.apiResp.Studies) :
              Kept(i) <=>
                 \/ conv.req.Phase = <<>>
                 \/ IF conv.apiResp.Studies[i].Phases = <<>>
                    THEN \E j \in 1..Len(conv.req.Phase) : conv.req.Phase[j] = S_NA
                    ELSE SomeTagRequested(conv.apiResp.Studies[i].Phases, conv.req.Phase)

\* C17, amended: the same, with "NA" looked for case-insensitively, as every
\* other phase is.
C17_PhasePredicateFoldedNA ==
    ConvertedNoAges
        => \A i \in 1..Len(conv.apiResp.Studies) :
              Kept(i) <=>
                 \/ conv.req.Phase = <<>>
                 \/ IF conv.apiResp.Studies[i].Phases = <<>>
                    THEN \E j \in 1..Len(conv.req.Phase) :
                            EqualFold(conv.req.Phase[j], S_NA)
                    ELSE SomeTagRequested(conv.apiResp.Studies[i].Phases, conv.req.Phase)
\* a trial without phase tags was kept for the requested phase "na"
C17_Witness ==
    /\ ConvertedNoAges
    /\ conv.req.Phase = <<S_na>>
    /\ \E i \in 1..Len(conv.apiResp.Studies) :
          conv.apiResp.Studies[i].Phases = <<>> /\ Kept(i)

\* matchesAgeFilter has been applied to four age strings
Matched == eval.fn = "matchesAgeFilter" /\ eval.done
\* the statement of the age rule over the four parsed values
Rejects(reqMin, reqMax, trialMin, trialMax) ==
    \/ (reqMin > 0 /\ (\/ (trialMax > 0 /\ trialMax < reqMin)
                       \/ (trialMin > 0 /\ trialMin > reqMin)))
    \/ (reqMax > 0 /\ (\/ (trialMin > 0 /\ trialMin > reqMax)
                       \/ (trialMax > 0 /\ trialMax < reqMax)))

InRange(a, lo, hi) == a >= lo /\ (hi = 0 \/ a <= hi)

\* C19: a trial whose age range has an age in common with the requested
\* range is kept.
C19_OverlappingRangesKept ==
    Matched
        => LET reqMin == parseAgeYears(eval.in.requestedMinAge)
               reqMax == parseAgeYears(eval.in.requestedMaxAge)
               trialMin == parseAgeYears(eval.in.trialMinAge)
               trialMax == parseAgeYears(eval.in.trialMaxAge)
           IN (\E a \in 0..MaxAge : /\ InRange(a, trialMin, trialMax)
                                    /\ InRange(a, reqMin, reqMax))
                 => eval.out = TRUE

\* parseAgeYears has been applied to an age string
Parsed == eval.fn = "parseAgeYears" /\ eval.done
\* the string without surrounding space and without its trailing unit word
Stripped(s) ==
    TrimSpace(TrimSuffix(TrimSuffix(TrimSuffix(ToLower(TrimSpace(s)),
        <<"y","e","a","r","s">>), <<"y","e","a","r">>), <<"y">>))
\* the first run of digits of s, wherever it starts
RECURSIVE FirstDigitRun(_)
FirstDigitRun(s) ==
    IF s = <<>> THEN <<>>
    ELSE IF IsDigit(Head(s)) THEN DigitRun(s)
    ELSE FirstDigitRun(Tail(s))
\* the four values the specification gives
ParsesTheExamples ==
    /\ eval.in = S_18Years => eval.out = 18
    /\ eval.in = S_65 => eval.out = 65
    /\ eval.in = <<>> => eval.out = 0
    /\ eval.in = S_Y => eval.out = 0

Bare(study) ==
    /\ study.Phases = <<>> /\ study.Conditions = <<>>
    /\ study.StartDate = <<>> /\ study.CompletionDate = <<>>
    /\ study.EligibilityCriteria = <<>> /\ study.Gender = <<>>
    /\ study.MinimumAge = <<>> /\ study.MaximumAge = <<>>
    /\ study.Locations = <<>> /\ study.CentralContacts = <<>>
    /\ study.LeadSponsor = [Name |-> <<>>, Class |-> <<>>]
    /\ study.BriefSummary = <<>> /\ study.DetailedDescription = <<>>

\* C21: the trial made from a study without any optional substructure has
\* its identifier, title, status, registry and URL, and the zero value in
\* every other field.
C21_BareStudyGivesBareTrial ==
    conv.done
        => \A j \in 1..Len(conv.out.Trials) :
             \A i \in 1..Len(conv.apiResp.Studies) :
                (/\ conv.apiResp.Studies[i].NCTID = conv.out.Trials[j].NCTID
                 /\ Bare(conv.apiResp.Studies[i]))
                    => /\ conv.out.Trials[j] =
                            [NCTID |-> conv.apiResp.Studies[i].NCTID,
                             Title |-> conv.apiResp.Studies[i].BriefTitle,
                             Status |-> conv.apiResp.Studies[i].OverallStatus,
                             Registry |-> <<"c","l","i","n","i","c","a","l","t","r",
                                         "i","a","l","s",".","g","o","v">>,
                             URL |-> <<"h","t","t","p","s",":","/","/","c","l",
                                    "i","n","i","c","a","l","t","r","i","a","l",
                                    "s",".","g","o","v","/","s","t","u","d","y",
                                    "/">>
                                     \o conv.apiResp.Studies[i].NCTID,
                             Phase |-> <<>>, Conditions |-> <<>>,
                             StartDate |-> <<>>, CompletionDate |-> <<>>,
                             Eligibility |-> [Criteria |-> <<>>, MinimumAge |-> <<>>,
                                              MaximumAge |-> <<>>, Gender |-> <<>>],
                             Locations |-> <<>>, Contacts |-> <<>>,
                             Sponsor |-> [Name |-> <<>>, Type |-> <<>>,
                                          Category |-> <<>>],
                             BriefSummary |-> <<>>, DetailedSummary |-> <<>>]
                       /\ conv.out.Trials[j].Title # <<>>
                       /\ conv.out.Trials[j].Status # <<>>
\* the study without optional substructures is in a response
C21_Witness ==
    /\ conv.done
    /\ \E j \in 1..Len(conv.out.Trials) : conv.out.Trials[j].NCTID = S_NCT02
    /\ Bare(Study2)

\* a step in which a handler answered from the cache: the call began and
\* returned at once with 200
IsHit == started' = started + 1 /\ pc' = pc /\ last'.resp.status = StatusOK

\* C22: a handler is answered from the cache only with the value of an entry
\* whose expiration instant has not passed, swept or not; every entry written
\* expires CacheTTL after the instant it was written; a hit leaves every entry,
\* its expiration instant included, as it was.
C22_GetHonoursExpiry ==
    [][ /\ IsHit =>
            /\ \E k \in DOMAIN cache :
                  /\ cache[k].Object.v = last'.resp.body
                  /\ ~(now > cache[k].Expiration)
            /\ cache' = cache
        /\ \A k \in DOMAIN cache' :
              (k \notin DOMAIN cache \/ cache'[k] # cache[k])
                  => cache'[k].Expiration = now + CacheTTL ]_vars
\* an entry for the request is past its expiration instant and not yet swept,
\* and the search missed it
C22_Witness ==
    /\ pc[1] = "rateLimit" /\ op[1] = "SearchTrials" /\ cacheEnabled
    /\ \E k \in generateCacheKey(P_search, req[1]) :
          k \in DOMAIN cache /\ now > cache[k].Expiration

\* caller p's GET search comes back from the client in this step
SearchReturns(p) == pc[p] = "http" /\ op[p] = "SearchTrials" /\ pc'[p] = "idle"

\* C23: every GET search that missed the cache makes its own upstream call
\* and, on success with the cache enabled, writes the entry of its key itself,
\* also when another search with the same request is under way or has just
\* filled that entry; two such searches have both been let through the
\* throttle.
C23_NoSingleFlight ==
    [][ \A p \in Callers : SearchReturns(p) =>
          /\ last'.caller = p /\ last'.upstreamCalls = 1
          /\ (cacheEnabled /\ last'.result.err = NilErr) =>
                \E k \in generateCacheKey(P_search, req[p]) :
                    /\ k \in DOMAIN cache'
                    /\ cache'[k].Object = [type |-> "SearchResponse", v |-> last'.result.resp]
                    /\ cache'[k].Expiration = now + CacheTTL
                    /\ cache'[k].For = req[p]
          /\ (\E q \in Callers \ {p} :
                 pc[q] = "http" /\ op[q] = "SearchTrials" /\ req[q] = req[p])
                => Len(releases) >= 2 ]_vars
\* one search has filled the entry while another with the same request, which
\* had missed it, is on its way to the upstream
C23_Witness ==
    /\ cacheEnabled /\ last.op = "SearchTrials" /\ last.result.err = NilErr
    /\ last.upstreamCalls = 1
    /\ \E p \in Callers \ {last.caller} :
          /\ pc[p] = "http" /\ op[p] = "SearchTrials" /\ req[p] = last.req
          /\ expect[p] = {} /\ FilledFor(req[p]) # {}

\* C24: no call is let through the throttle to the upstream more than once:
\* the upstream requests released so far never outnumber the calls started,
\* no call in progress has entered rateLimit twice, and every returned call
\* made at most one upstream request, whatever the upstream answered.
C24_NoRetry ==
    /\ Len(releases) <= started
    /\ \A p \in Callers : throttled[p] <= 1
    /\ last.upstreamCalls <= 1 /\ last.throttled <= 1
\* a call whose upstream request failed has returned, having asked once
C24_Witness ==
    /\ last.op \in {"SearchTrials", "SearchTrialsPost", "GetTrialByID"}
    /\ last.result.err # NilErr /\ last.upstreamCalls = 1
    /\ started = 1 /\ Len(releases) = 1 /\ pc[1] = "idle"

\* C25: the request's page token is sent to the upstream as it is when it is
\* not empty and no pageToken parameter is sent when it is empty; the
\* response's next-page token is the one of the upstream's page, whatever the
\* filters removed from the page.
C25_PageTokensPassThrough ==
    /\ (eval.fn = "buildQueryParams" /\ eval.done) =>
          IF eval.in.PageToken = <<>>
          THEN "pageToken" \notin DOMAIN eval.out
          ELSE "pageToken" \in DOMAIN eval.out
               /\ eval.out["pageToken"] = eval.in.PageToken
    /\ conv.done => conv.out.NextPageToken = conv.apiResp.NextPageToken
\* a page asked for with a token came back with another token and lost a
\* record to the filters
C25_Witness ==
    /\ eval.done /\ conv.done
    /\ eval.in.PageToken = S_tok /\ conv.apiResp.NextPageToken = S_tok2
    /\ Len(conv.out.Trials) < Len(conv.apiResp.Studies)
    /\ conv.out.Trials # <<>>

\* C26: every call that has begun returns to its caller, however the calls
\* of the callers interleave: none stays in the throttle or on the upstream
\* for ever.
C26_EveryCallReturns == \A p \in Callers : (pc[p] # "idle") ~> (pc[p] = "idle")
\* two calls are under way at once, one on the upstream, the other in the
\* throttle with its sleep still to run
C26_Witness ==
    \E p \in Callers, q \in Callers :
        /\ pc[p] = "http"
        /\ pc[q] = "sleep" /\ wake[q] > now /\ now >= MaxTicks

\* C27: every SearchResponse a GET search is answered with, cached or fresh,
\* holds only trials that pass the phase and age predicates of the request it
\* answers.
C27_ResponsesPassRequestPredicates ==
    (last.op = "SearchTrials" /\ last.resp.status = StatusOK)
        => \A j \in 1..Len(last.resp.body.Trials) :
               keepTrial(last.resp.body.Trials[j], last.req)

\* the fields of a request that generateCacheKey puts into the key
KeyFields(r) ==
    <<r.Query, r.Conditions, r.Status, r.Phase, r.PageToken, r.PageSize,
      r.Latitude, r.Longitude, r.Distance>>

\* C28: two requests that differ in a key field never get the same cache
\* key.
C28_KeyInjective ==
    (eval.fn = "generateCacheKey" /\ eval.done
        /\ KeyFields(eval.in[1]) # KeyFields(eval.in[2]))
        => eval.out[1] # eval.out[2]

C30_StampBeforeCallWhateverOutcome ==
    /\ releases # <<>> => lastRequest = releases[Len(releases)]
    /\ (pc[1] = "http" /\ Len(releases) = 2 /\ Failed(last))
          => releases[2] >= releases[1] + DefaultRateLimitDelay
\* the call after a failed one has waited out the rest of minDelay and is now
\* on the upstream
C30_Witness ==
    /\ pc[1] = "http" /\ Len(releases) = 2 /\ Failed(last)
    /\ releases[2] = releases[1] + DefaultRateLimitDelay
    /\ lastRequest = releases[2]

====
